---- MODULE Spec2Model ----
(***************************************************************************)
(* Witness assembly and circuit sizing of zkevm-circuits                   *)
(* (zkevm-circuits/src/witness/block.rs).                                  *)
(*                                                                         *)
(* Four specifications share the module:                                   *)
(*   Spec        block_convert, one action per statement group             *)
(*   SpecDegree  Block::get_test_degree over snapshots that grow           *)
(*   SpecFp      get_rwtable_fingerprints over row sequences               *)
(*   SpecCtx     BlockContext::table_assignments                           *)
(***************************************************************************)
EXTENDS Integers, Sequences, FiniteSets, TLC

VARIABLES
    \* ---- block_convert ----
    pc,              \* position inside block_convert
    container,       \* builder.block.container: the chronological access log
    chunks,          \* builder.chunks: chunk.ctx.rwc.0 of every chunk
    max_rws,         \* builder.circuits_params.max_rws
    block_txs,       \* builder.block.txs()
    rws,             \* local rws
    by_address_rws,  \* local by_address_rws
    idx,             \* chunks already folded
    rw_padding_meta, \* the fold's accumulator
    keccak_inputs,   \* local keccak_inputs
    block,           \* local `block` (the witness Block), NoBlock before line 336
    rpi_bytes,       \* local rpi_bytes
    result,          \* what the caller of block_convert observes
    \* ---- Block::get_test_degree ----
    blk,             \* the snapshot (and chunk) get_test_degree reads
    grown,           \* how many times a sub-table of blk has grown
    degree,          \* k, the value get_test_degree(blk) returned
    \* ---- get_rwtable_fingerprints ----
    alpha, gamma,    \* the challenges
    seed,            \* prev_continuous_fingerprint of the first call
    rowsA, rowsB,    \* two row sequences
    fpA,             \* fingerprints of rowsA under seed
    fpB,             \* fingerprints of rowsB under fpA's last accumulator
    fpAB,            \* fingerprints of rowsA ++ rowsB under seed
    \* ---- BlockContext::table_assignments ----
    context,         \* the BlockContext
    assignments      \* what table_assignments returned: rows, or a panic

convertVars == <<pc, container, chunks, max_rws, block_txs, rws, by_address_rws,
                 idx, rw_padding_meta, keccak_inputs, block, rpi_bytes, result>>

degreeVars == <<blk, grown, degree>>

fpVars == <<alpha, gamma, seed, rowsA, rowsB, fpA, fpB, fpAB>>
ctxVars == <<context, assignments>>

vars == <<convertVars, degreeVars, fpVars, ctxVars>>

\* ---------------------------------------------------------------- bounds
MaxLog == 2
MaxChunks == 2
MaxRwsCap == 2
MaxGrow == 2
MaxRows == 2
MaxHistory == 2
MaxNumber == 6

\* ---------------------------------------------------------------- helpers
\* a local not yet assigned; Option::None for the snapshot, <<b>> once built
Unset == <<>>
NoBlock == <<>>
TheBlock == block[1]
EmptyMap == [k \in {} |-> 0]

Targets == {"a", "b"}
RwValues == {0, 1}
RwOps == [target : Targets, is_write : BOOLEAN, value : RwValues]
TargetRank(t) == IF t = "a" THEN 0 ELSE 1

SeqsUpTo(S, n) == UNION {[1..k -> S] : k \in 0..n}

\* usize::saturating_sub
saturating_sub(a, b) == IF a >= b THEN a - b ELSE 0

\* ------------------------------------------------------- read/write log
\* RwMap::from(&block.container): every access keyed by its counter, the
\* counters dense from 1 in chronological order.
RwMapFrom(ops) ==
    [i \in 1..Len(ops) |->
        [rw_counter |-> i, target |-> ops[i].target,
         is_write |-> ops[i].is_write, value |-> ops[i].value]]

KeyLess(r, s) ==
    \/ TargetRank(r.target) < TargetRank(s.target)
    \/ r.target = s.target /\ r.rw_counter < s.rw_counter

RECURSIVE InsertSorted(_, _)
InsertSorted(sorted, r) ==
    IF sorted = <<>> THEN <<r>>
    ELSE IF KeyLess(r, Head(sorted)) THEN <<r>> \o sorted
    ELSE <<Head(sorted)>> \o InsertSorted(Tail(sorted), r)

RECURSIVE SortRows(_)
SortRows(rows) ==
    IF rows = <<>> THEN <<>>
    ELSE InsertSorted(SortRows(SubSeq(rows, 1, Len(rows) - 1)), rows[Len(rows)])

\* RwMap::table_assignments(false): the same events ordered by target, then
\* by counter.
rws_table_assignments(m) == SortRows(m)

\* RwMap::check_value: a read must reproduce the value of the most recent
\* prior access to the same target.
check_value_ok(m) ==
    \A i \in 1..Len(m) :
        \A j \in 1..(i - 1) :
            ( /\ ~m[i].is_write
              /\ m[j].target = m[i].target
              /\ \A l \in (j + 1)..(i - 1) : m[l].target # m[i].target )
            => m[i].value = m[j].value

\* ------------------------------------------------------- padding fold
\* faulty variant: or_insert(1)
entry_incrMutant(map, k) ==
    IF k \in DOMAIN map
    THEN [map EXCEPT ![k] = @ + 1]
    ELSE [x \in DOMAIN map \cup {k} |-> IF x = k THEN 1 + 1 ELSE map[x]]
\* *map.entry(k).or_insert(0) += 1
entry_incr(map, k) ==
    IF k \in DOMAIN map
    THEN [map EXCEPT ![k] = @ + 1]
    ELSE [x \in DOMAIN map \cup {k} |-> IF x = k THEN 0 + 1 ELSE map[x]]

\* (lo..hi).for_each(|k| *map.entry(k).or_insert(0) += 1)
RECURSIVE range_for_each(_, _, _)
range_for_each(map, lo, hi) ==
    IF lo >= hi THEN map
    ELSE range_for_each(entry_incr(map, lo), lo + 1, hi)

\* faulty variant: the assertion dropped
capacity_okMutant(rwc) == TRUE
\* the assert! of the fold's closure
capacity_ok(rwc) == saturating_sub(rwc, 1) <= max_rws

\* faulty variant: the range starts one past the counter
padding_startMutant(rwc) == rwc + 1
\* first index of a chunk's padding range
padding_start(rwc) == rwc

\* the closure of the fold, past its assertion
fold_chunk(map, rwc) == range_for_each(map, padding_start(rwc), max_rws)

\* ------------------------------------------------------- collaborators
\* circuit_input_builder::keccak_inputs(block, code_db)?: the derived hash
\* inputs, or an error
\* two derived hash inputs (byte vectors)
KeccakIn1 == <<"k1">>
KeccakIn2 == <<"k2">>
KeccakResults ==
    {[is_err |-> TRUE, inputs |-> <<>>]}
    \cup {[is_err |-> FALSE, inputs |-> s] : s \in {<<>>, <<KeccakIn1, KeccakIn2>>}}

TxLists == {<<"tx1">>}

circuits_params == [max_rws |-> max_rws, max_txs |-> 1, max_withdrawals |-> 1,
                    max_calldata |-> 32]

\* BlockContext::from(&builder.block)
block_context == [chain_id |-> 1337]

\* public_data_convert(&block).get_pi_bytes(max_txs, max_withdrawals,
\* max_calldata): bytes computed from the snapshot's context and
\* transactions and the capacities
get_pi_bytes(b) ==
    <<"pi", b.context.chain_id, b.txs, b.circuits_params.max_txs,
      b.circuits_params.max_withdrawals, b.circuits_params.max_calldata>>

\* ------------------------------------------------------- block_convert
InitConvert ==
    /\ pc = "start"
    /\ container \in SeqsUpTo(RwOps, MaxLog)
    /\ max_rws \in {0, MaxRwsCap}
    /\ chunks \in SeqsUpTo(0..(max_rws + 2), MaxChunks)
    /\ block_txs \in TxLists
    /\ rws = Unset
    /\ by_address_rws = Unset
    /\ idx = 0
    /\ rw_padding_meta = EmptyMap
    /\ keccak_inputs = Unset
    /\ block = NoBlock
    /\ rpi_bytes = Unset
    /\ result = "none"

inputVars == <<container, chunks, max_rws, block_txs>>

\* lines 312-313
BuildRws ==
    /\ pc = "start"
    /\ rws' = RwMapFrom(container)
    /\ by_address_rws' = rws_table_assignments(RwMapFrom(container))
    /\ pc' = "check"
    /\ UNCHANGED <<degreeVars, fpVars, ctxVars, inputVars, idx, rw_padding_meta, keccak_inputs, block,
                   rpi_bytes, result>>

\* faulty variant: the call of line 314 left out
CheckValueSkipped ==
    /\ pc = "check"
    /\ pc' = "fold"
    /\ UNCHANGED <<degreeVars, fpVars, ctxVars, inputVars, rws, by_address_rws, idx, rw_padding_meta,
                   keccak_inputs, block, rpi_bytes, result>>
\* line 314
CheckValue ==
    /\ pc = "check"
    /\ IF check_value_ok(rws)
       THEN pc' = "fold" /\ result' = result
       ELSE pc' = "failed" /\ result' = "InconsistentValueError"
    /\ UNCHANGED <<degreeVars, fpVars, ctxVars, inputVars, rws, by_address_rws, idx, rw_padding_meta,
                   keccak_inputs, block, rpi_bytes>>

\* lines 318-333, one chunk of the fold
FoldChunk ==
    /\ pc = "fold"
    /\ idx < Len(chunks)
    /\ IF capacity_ok(chunks[idx + 1])
       THEN /\ rw_padding_meta' = fold_chunk(rw_padding_meta, chunks[idx + 1])
            /\ idx' = idx + 1
            /\ pc' = pc
            /\ result' = result
       ELSE /\ pc' = "failed"
            /\ result' = "CapacityExceededError"
            /\ UNCHANGED <<rw_padding_meta, idx>>
    /\ UNCHANGED <<degreeVars, fpVars, ctxVars, inputVars, rws, by_address_rws, keccak_inputs, block, rpi_bytes>>

\* line 335
KeccakInputs ==
    /\ pc = "fold"
    /\ idx = Len(chunks)
    /\ \E r \in KeccakResults :
        IF r.is_err
        THEN pc' = "failed" /\ result' = "KeccakError" /\ keccak_inputs' = keccak_inputs
        ELSE pc' = "populate" /\ result' = result /\ keccak_inputs' = r.inputs
    /\ UNCHANGED <<degreeVars, fpVars, ctxVars, inputVars, rws, by_address_rws, idx, rw_padding_meta, block,
                   rpi_bytes>>

\* lines 336-356; the fields cloned verbatim from the builder (bytecodes,
\* copy_events, exp_events, sha3_inputs, ...) are read by no later step here
Populate ==
    /\ pc = "populate"
    /\ block' = << [randomness |-> 51966,
                    context |-> block_context,
                    rws |-> rws,
                    by_address_rws |-> by_address_rws,
                    txs |-> block_txs,
                    circuits_params |-> circuits_params,
                    keccak_inputs |-> keccak_inputs,
                    rw_padding_meta |-> rw_padding_meta] >>
    /\ pc' = "public_data"
    /\ UNCHANGED <<degreeVars, fpVars, ctxVars, inputVars, rws, by_address_rws, idx, rw_padding_meta,
                   keccak_inputs, rpi_bytes, result>>

\* lines 357-365
PublicData ==
    /\ pc = "public_data"
    /\ rpi_bytes' = get_pi_bytes(TheBlock)
    /\ pc' = "extend"
    /\ UNCHANGED <<degreeVars, fpVars, ctxVars, inputVars, rws, by_address_rws, idx, rw_padding_meta,
                   keccak_inputs, block, result>>

\* faulty variant: the item is put in front
extend_from_sliceMutant(list, item) == <<item>> \o list
\* block.keccak_inputs.extend_from_slice(&[rpi_bytes])
extend_from_slice(list, item) == list \o <<item>>

\* lines 367-369
ExtendAndReturn ==
    /\ pc = "extend"
    /\ block' = [block EXCEPT ![1].keccak_inputs = extend_from_slice(@, rpi_bytes)]
    /\ pc' = "done"
    /\ result' = "Ok"
    /\ UNCHANGED <<degreeVars, fpVars, ctxVars, inputVars, rws, by_address_rws, idx, rw_padding_meta,
                   keccak_inputs, rpi_bytes>>

NextConvert ==
    \/ BuildRws
    \/ CheckValue
    \/ FoldChunk
    \/ KeccakInputs
    \/ Populate
    \/ PublicData
    \/ ExtendAndReturn

\* ------------------------------------------------------- get_test_degree
\* 1 << 16, the u16 range lookup
U16Range == 65536

\* exp_circuit::param::OFFSET_INCREMENT: rows per exponentiation step
OFFSET_INCREMENT == 7

\* util::log2_ceil: the base-2 ceiling logarithm
RECURSIVE log2_ceil_from(_, _, _)
log2_ceil_from(n, e, pow) ==
    IF pow >= n THEN e ELSE log2_ceil_from(n, e + 1, pow * 2)
log2_ceil(n) == log2_ceil_from(n, 0, 1)

\* Iterator::sum
RECURSIVE iter_sum(_)
iter_sum(list) ==
    IF list = <<>> THEN 0 ELSE Head(list) + iter_sum(Tail(list))

\* itertools::max(list).unwrap()
RECURSIVE iter_max(_)
iter_max(list) ==
    IF Len(list) = 1 THEN list[1]
    ELSE LET m == iter_max(Tail(list))
         IN  IF Head(list) > m THEN Head(list) ELSE m

\* faulty variant: only the last copy event is counted
copy_table_rowsMutant(b) ==
    IF b.copy_events = <<>> THEN 0 ELSE b.copy_events[Len(b.copy_events)] * 2
\* self.copy_events.iter().map(|c| c.bytes.len() * 2).sum()
copy_table_rows(b) ==
    iter_sum([c \in 1..Len(b.copy_events) |-> b.copy_events[c] * 2])

\* self.txs.iter().map(|tx| 9 + tx.call_data.len()).sum()
tx_table_rows(b) == iter_sum([tx \in 1..Len(b.txs) |-> 9 + b.txs[tx]])

\* self.exp_events.iter().map(|e| e.steps.len() * OFFSET_INCREMENT).sum()
exp_table_rows(b) ==
    iter_sum([e \in 1..Len(b.exp_events) |-> b.exp_events[e] * OFFSET_INCREMENT])

\* faulty variant: the u16 range entry is missing
rows_listMutant(b) ==
    << b.exec_rows, b.max_rws, b.fixed_table_rows, b.bytecode_table_rows,
       copy_table_rows(b), b.keccak_inputs_len, tx_table_rows(b),
       exp_table_rows(b) >>
\* the list handed to itertools::max
rows_list(b) ==
    << b.exec_rows, b.max_rws, b.fixed_table_rows, b.bytecode_table_rows,
       copy_table_rows(b), b.keccak_inputs_len, tx_table_rows(b),
       exp_table_rows(b), U16Range >>

\* faulty variant: two tables added up instead of the maximum
rows_neededMutant(b) == copy_table_rows(b) + tx_table_rows(b)
\* let rows_needed = itertools::max([..]).unwrap()
rows_needed(b) == iter_max(rows_list(b))

get_test_degree(b) == log2_ceil(b.unusable_rows + rows_needed(b))

\* sizes a sub-table grows by, around the u16 range
GrowAmounts == {1, U16Range \div 2, U16Range}
UnusableRows == {0, 1, 64}

\* an empty block: no transactions, copy events or exponentiation events
InitDegree ==
    /\ \E u \in UnusableRows :
        blk = [unusable_rows |-> u, exec_rows |-> 0, max_rws |-> 0,
               fixed_table_rows |-> 0, bytecode_table_rows |-> 0,
               copy_events |-> <<>>, keccak_inputs_len |-> 0, txs |-> <<>>,
               exp_events |-> <<>>]
    /\ grown = 0
    /\ degree = get_test_degree(blk)

\* blk becomes b and get_test_degree is called on it
Regrow(b) ==
    /\ grown < MaxGrow
    /\ blk' = b
    /\ grown' = grown + 1
    /\ degree' = get_test_degree(b)
    /\ UNCHANGED <<convertVars, fpVars, ctxVars>>

GrowExecution == \E n \in GrowAmounts : Regrow([blk EXCEPT !.exec_rows = @ + n])
RaiseMaxRws == \E n \in GrowAmounts : Regrow([blk EXCEPT !.max_rws = @ + n])
GrowFixedTable == \E n \in GrowAmounts : Regrow([blk EXCEPT !.fixed_table_rows = @ + n])
GrowBytecode == \E n \in GrowAmounts : Regrow([blk EXCEPT !.bytecode_table_rows = @ + n])
AddCopyEvent == \E n \in GrowAmounts : Regrow([blk EXCEPT !.copy_events = Append(@, n)])
AddKeccakInputs == \E n \in GrowAmounts : Regrow([blk EXCEPT !.keccak_inputs_len = @ + n])
AddTx == \E n \in GrowAmounts \cup {0} : Regrow([blk EXCEPT !.txs = Append(@, n)])
GrowCallData ==
    /\ blk.txs # <<>>
    /\ \E n \in GrowAmounts : Regrow([blk EXCEPT !.txs[Len(blk.txs)] = @ + n])
AddExpEvent == \E n \in GrowAmounts : Regrow([blk EXCEPT !.exp_events = Append(@, n)])

NextDegree ==
    \/ GrowExecution
    \/ RaiseMaxRws
    \/ GrowFixedTable
    \/ GrowBytecode
    \/ AddCopyEvent
    \/ AddKeccakInputs
    \/ AddTx
    \/ GrowCallData
    \/ AddExpEvent

\* ------------------------------------------------------- field
\* the modulus of the field F, scaled down
FieldModulus == 5
FieldElements == 0..(FieldModulus - 1)
fadd(a, b) == (a + b) % FieldModulus
fmul(a, b) == (a * b) % FieldModulus

\* ------------------------------------------------------- fingerprints
\* rows.to2dvec(): every Rw as its vector of column values
RowVectors == {<<0, 1>>, <<1, 2>>, <<3, 4>>}
to2dvec(rows) == rows

\* the alpha-weighted combination of a row's columns, plus gamma
RECURSIVE weighted_sum(_, _, _)
weighted_sum(row, a, weight) ==
    IF row = <<>> THEN 0
    ELSE fadd(fmul(weight, Head(row)), weighted_sum(Tail(row), a, fmul(weight, a)))
row_value(row, a, g) == fadd(weighted_sum(row, a, 1), g)

\* gadgets::permutation::get_permutation_fingerprints: the grand product,
\* every step multiplying the running accumulator by the row's value; one
\* (accumulator, row value) pair per row
RECURSIVE get_permutation_fingerprints(_, _, _, _)
get_permutation_fingerprints(x, a, g, acc_prev) ==
    IF x = <<>> THEN <<>>
    ELSE LET value == row_value(Head(x), a, g)
             acc == fmul(acc_prev, value)
         IN  <<[acc |-> acc, row |-> value]>>
             \o get_permutation_fingerprints(Tail(x), a, g, acc)

\* RwFingerprints::new(first_row, last_row, first_acc, last_acc)
RwFingerprints(first_row, last_row, first_acc, last_acc) ==
    [first_row |-> first_row, last_row |-> last_row,
     first_acc |-> first_acc, last_acc |-> last_acc]

\* RwFingerprints::default()
RwFingerprintsDefault == RwFingerprints(0, 0, 0, 0)

\* faulty variant: first and last accumulator swapped
get_rwtable_fingerprintsMutant(a, g, prev_continuous_fingerprint, rows) ==
    LET x == to2dvec(rows)
        fingerprints == get_permutation_fingerprints(x, a, g, prev_continuous_fingerprint)
    IN  IF fingerprints = <<>> THEN RwFingerprintsDefault
        ELSE LET first == fingerprints[1]
                 last == fingerprints[Len(fingerprints)]
             IN  RwFingerprints(first.row, last.row, last.acc, first.acc)
\* get_rwtable_fingerprints, lines 373-399
get_rwtable_fingerprints(a, g, prev_continuous_fingerprint, rows) ==
    LET x == to2dvec(rows)
        fingerprints == get_permutation_fingerprints(x, a, g, prev_continuous_fingerprint)
    IN  IF fingerprints = <<>> THEN RwFingerprintsDefault
        ELSE LET first == fingerprints[1]
                 last == fingerprints[Len(fingerprints)]
             IN  RwFingerprints(first.row, last.row, first.acc, last.acc)

NotComputed == <<>>

InitFp ==
    /\ alpha \in FieldElements
    /\ gamma \in FieldElements
    /\ seed \in FieldElements
    /\ rowsA \in SeqsUpTo(RowVectors, MaxRows)
    /\ rowsB \in SeqsUpTo(RowVectors, MaxRows)
    /\ fpA = NotComputed
    /\ fpB = NotComputed
    /\ fpAB = NotComputed

\* the first chunk's fingerprints
FingerprintFirst ==
    /\ fpA = NotComputed
    /\ fpA' = <<get_rwtable_fingerprints(alpha, gamma, seed, rowsA)>>
    /\ UNCHANGED <<convertVars, degreeVars, ctxVars, alpha, gamma, seed, rowsA, rowsB, fpB, fpAB>>

\* the next chunk's fingerprints, seeded with the first's last accumulator
FingerprintChained ==
    /\ fpA # NotComputed
    /\ fpB = NotComputed
    /\ fpB' = <<get_rwtable_fingerprints(alpha, gamma, fpA[1].last_acc, rowsB)>>
    /\ UNCHANGED <<convertVars, degreeVars, ctxVars, alpha, gamma, seed, rowsA, rowsB, fpA, fpAB>>

\* the fingerprints of the whole sequence
FingerprintWhole ==
    /\ fpAB = NotComputed
    /\ fpAB' = <<get_rwtable_fingerprints(alpha, gamma, seed, rowsA \o rowsB)>>
    /\ UNCHANGED <<convertVars, degreeVars, ctxVars, alpha, gamma, seed, rowsA, rowsB, fpA, fpB>>

\* ------------------------------------------------------- block context
\* Word::to_scalar: None when the word is not below the field's modulus
ScalarNone == "None"
to_scalar(w) == IF w < FieldModulus THEN <<w>> ELSE ScalarNone
\* WordLoHi::from(w).lo(), .hi()
word_lo(w) == <<"lo", w>>
word_hi(w) == <<"hi", w>>
\* F::ZERO, F::from(u64)
F_ZERO == <<0>>
F_from(n) == <<n>>

Panicked == <<"panic">>
HashWords == {7, 9}

\* faulty variant: off by one
block_number_atMutant(number, len_history, i) == number - len_history + i + 1
\* block number of the history hash at idx: self.number - len_history + idx
block_number_at(number, len_history, i) == number - len_history + i

\* the vec! of the eight scalar rows, lines 220-269
scalar_rows(c) ==
    << <<"Coinbase", F_ZERO, word_lo(c.coinbase), word_hi(c.coinbase)>>,
       <<"Timestamp", F_ZERO, to_scalar(c.timestamp), F_ZERO>>,
       <<"Number", F_ZERO, to_scalar(c.number), F_ZERO>>,
       <<"Difficulty", F_ZERO, word_lo(c.difficulty), word_hi(c.difficulty)>>,
       <<"GasLimit", F_ZERO, F_from(c.gas_limit), F_ZERO>>,
       <<"BaseFee", F_ZERO, word_lo(c.base_fee), word_hi(c.base_fee)>>,
       <<"ChainId", F_ZERO, word_lo(c.chain_id), word_hi(c.chain_id)>>,
       <<"WithdrawalRoot", F_ZERO, word_lo(c.withdrawals_root), word_hi(c.withdrawals_root)>> >>

\* the rows of the history hashes, lines 270-284
history_rows(c) ==
    LET len_history == Len(c.history_hashes)
    IN  [i \in 1..len_history |->
            <<"BlockHash",
              to_scalar(block_number_at(c.number, len_history, i - 1)),
              word_lo(c.history_hashes[i]), word_hi(c.history_hashes[i])>>]

\* BlockContext::table_assignments: the unwrap of to_scalar panics on None,
\* the U256 subtraction panics when number < len_history
table_assignments(c) ==
    IF to_scalar(c.timestamp) = ScalarNone \/ to_scalar(c.number) = ScalarNone
    THEN Panicked
    ELSE IF Len(c.history_hashes) > 0 /\ c.number < Len(c.history_hashes)
    THEN Panicked
    ELSE scalar_rows(c) \o history_rows(c)

InitCtx ==
    /\ \E n \in 0..MaxNumber, t \in {1, FieldModulus},
          h \in SeqsUpTo(HashWords, MaxHistory) :
        context = [coinbase |-> 11, gas_limit |-> 30, number |-> n,
                   timestamp |-> t, difficulty |-> 0, base_fee |-> 2,
                   history_hashes |-> h, chain_id |-> 1337,
                   withdrawals_root |-> 0]
    /\ assignments = NotComputed

TableAssignments ==
    /\ assignments = NotComputed
    /\ assignments' = table_assignments(context)
    /\ UNCHANGED <<convertVars, degreeVars, fpVars, context>>

\* ------------------------------------------------------- specifications
IdleConvert ==
    /\ pc = "idle" /\ container = <<>> /\ chunks = <<>> /\ max_rws = 0
    /\ block_txs = <<>> /\ rws = Unset /\ by_address_rws = Unset /\ idx = 0
    /\ rw_padding_meta = EmptyMap /\ keccak_inputs = Unset /\ block = NoBlock
    /\ rpi_bytes = Unset /\ result = "none"
IdleDegree == blk = <<>> /\ grown = 0 /\ degree = 0

IdleFp ==
    /\ alpha = 0 /\ gamma = 0 /\ seed = 0 /\ rowsA = <<>> /\ rowsB = <<>>
    /\ fpA = NotComputed /\ fpB = NotComputed /\ fpAB = NotComputed
IdleCtx == context = <<>> /\ assignments = NotComputed

Init == InitConvert /\ IdleDegree /\ IdleFp /\ IdleCtx
Next == NextConvert
Spec == Init /\ [][Next]_vars

InitD == InitDegree /\ IdleConvert /\ IdleFp /\ IdleCtx
NextD == NextDegree
SpecDegree == InitD /\ [][NextD]_vars

InitF == InitFp /\ IdleConvert /\ IdleDegree /\ IdleCtx
NextF ==
    \/ FingerprintFirst
    \/ FingerprintChained
    \/ FingerprintWhole
SpecFp == InitF /\ [][NextF]_vars

InitC == InitCtx /\ IdleConvert /\ IdleDegree /\ IdleFp
NextC == TableAssignments
SpecCtx == InitC /\ [][NextC]_vars

\* ================================================================ claims
\* ---------------------------------------------------------------- shared
Terminal == pc \in {"done", "failed"}
FoldComplete == pc \in {"populate", "public_data", "extend", "done"}
                \/ (pc = "fold" /\ idx = Len(chunks))
Lookup(map, i) == IF i \in DOMAIN map THEN map[i] ELSE 0
RowIndices == 0..(MaxRwsCap + 3)

\* the number of chunks for which row index i is padding: the chunks whose
\* counter is <= i, for i below max_rws
PaddingCount(i) ==
    Cardinality({j \in 1..Len(chunks) : chunks[j] <= i /\ i < max_rws})

\* C1: once every chunk has been folded, rw_padding_meta maps each row index
\* i to the number of chunks whose counter is <= i, each chunk contributing 1
\* to every index of [counter, max_rws) and to no other index; the returned
\* snapshot carries that map.
C1_PaddingAccounting ==
    FoldComplete =>
        /\ \A i \in RowIndices :
            /\ Lookup(rw_padding_meta, i) = PaddingCount(i)
            /\ (i \in DOMAIN rw_padding_meta) <=> (PaddingCount(i) > 0)
        /\ DOMAIN rw_padding_meta \subseteq RowIndices
        /\ (block # NoBlock => TheBlock.rw_padding_meta = rw_padding_meta)

C1_Witness ==
    /\ pc = "done"
    /\ Len(chunks) = 2
    /\ chunks[1] # chunks[2]
    /\ \E i \in DOMAIN TheBlock.rw_padding_meta : TheBlock.rw_padding_meta[i] = 2
    /\ \E i \in DOMAIN TheBlock.rw_padding_meta : TheBlock.rw_padding_meta[i] = 1

\* a chunk whose logical event count minus one exceeds max_rws
Oversized == \E j \in 1..Len(chunks) : chunks[j] - 1 > max_rws

\* a read whose value differs from the value of the most recent prior access
\* to the same target
HasStaleRead(ops) ==
    \E i \in 1..Len(ops) : \E j \in 1..(i - 1) :
        /\ ~ops[i].is_write
        /\ ops[j].target = ops[i].target
        /\ ~\E l \in (j + 1)..(i - 1) : ops[l].target = ops[i].target
        /\ ops[j].value # ops[i].value

PopulatedSnapshot ==
    [randomness |-> 51966,
     context |-> block_context,
     rws |-> RwMapFrom(container),
     by_address_rws |-> rws_table_assignments(RwMapFrom(container)),
     txs |-> block_txs,
     circuits_params |-> circuits_params,
     keccak_inputs |-> keccak_inputs,
     rw_padding_meta |-> rw_padding_meta]

Occurrences(list, x) == Cardinality({i \in 1..Len(list) : list[i] = x})

\* C7: the public-input bytes are computed from the fully populated snapshot
\* whose hash-input list holds only the derived inputs; the returned
\* snapshot's keccak_inputs is the derived list followed by the public-input
\* bytes as its single, last extra entry, every other field as populated.
C7_PublicInputOrdering ==
    LET P == PopulatedSnapshot IN
    /\ pc \in {"start", "check", "fold", "populate", "public_data"} => rpi_bytes = Unset
    /\ pc \in {"public_data", "extend"} => block = <<P>>
    /\ pc = "extend" =>
        /\ rpi_bytes = get_pi_bytes(P)
        /\ Occurrences(TheBlock.keccak_inputs, rpi_bytes) = 0
    /\ pc = "done" =>
        /\ result = "Ok"
        /\ rpi_bytes = get_pi_bytes(P)
        /\ block = <<[P EXCEPT !.keccak_inputs = TheBlock.keccak_inputs]>>
        /\ Len(TheBlock.keccak_inputs) = Len(keccak_inputs) + 1
        /\ TheBlock.keccak_inputs[Len(TheBlock.keccak_inputs)] = rpi_bytes
        /\ SubSeq(TheBlock.keccak_inputs, 1, Len(keccak_inputs)) = keccak_inputs
        /\ Occurrences(TheBlock.keccak_inputs, rpi_bytes) = 1

C7_Witness ==
    /\ pc = "done"
    /\ Len(keccak_inputs) = 2
    /\ Len(TheBlock.keccak_inputs) = 3

\* the padding fold's invariant after any prefix of the chunk list
FoldInv ==
    LET D == DOMAIN rw_padding_meta
        seen == {chunks[j] : j \in 1..idx}
    IN  /\ idx \in 0..Len(chunks)
        /\ \A k \in D :
            /\ k < max_rws
            /\ \E c \in seen : \A d \in seen : c <= d /\ c <= k
            /\ 1 <= rw_padding_meta[k] /\ rw_padding_meta[k] <= idx
            /\ \A l \in D : k <= l => rw_padding_meta[k] <= rw_padding_meta[l]
        /\ D = {} \/ \E lo \in 0..max_rws : D = lo..(max_rws - 1)

CeilLog2(n) == CHOOSE e \in 0..30 : 2^e >= n /\ (e = 0 \/ 2^(e - 1) < n)

SeqTotal(list) ==
    LET RECURSIVE upto(_)
        upto(i) == IF i = 0 THEN 0 ELSE list[i] + upto(i - 1)
    IN  upto(Len(list))

\* the sub-table row requirements of a snapshot, as the claims name them
CopiedBytes(b) == SeqTotal(b.copy_events)
TxRows(b) == 9 * Len(b.txs) + SeqTotal(b.txs)
ExpRows(b) == OFFSET_INCREMENT * SeqTotal(b.exp_events)
Requirements(b) ==
    <<b.exec_rows, b.max_rws, b.fixed_table_rows, b.bytecode_table_rows,
      2 * CopiedBytes(b), b.keccak_inputs_len, TxRows(b), ExpRows(b)>>
SubTableRows(b) == {Requirements(b)[i] : i \in 1..8}
SetMax(S) == CHOOSE m \in S : \A x \in S : x <= m

Sized == blk # <<>>

\* C4: get_test_degree returns the smallest k with 2^k >= unusable_rows + R,
\* R the maximum of the eight sub-table row requirements and 65536.
C4_DegreeIsCeilLog ==
    Sized =>
        LET R == SetMax(SubTableRows(blk) \cup {65536})
            n == blk.unusable_rows + R
        IN  /\ 2^degree >= n
            /\ degree = 0 \/ 2^(degree - 1) < n
            /\ \A e \in 0..(degree - 1) : 2^e < n

C4_Witness ==
    /\ Sized
    /\ grown = 2
    /\ Len(blk.copy_events) = 1 /\ Len(blk.exp_events) = 1
    /\ 2 * CopiedBytes(blk) > 65536
    /\ ExpRows(blk) > 2 * CopiedBytes(blk)
    /\ degree = 18

\* C5: growing one sub-table requirement of the snapshot never decreases
\* the degree get_test_degree returns.
C5_DegreeMonotone ==
    [][ (Sized /\ \A i \in 1..8 : Requirements(blk')[i] >= Requirements(blk)[i])
        => degree' >= degree ]_vars

C5_Witness ==
    /\ Sized
    /\ grown = 2
    /\ Len(blk.copy_events) = 2
    /\ blk.copy_events[1] > blk.copy_events[2]
    /\ degree = 18

\* C6: the degree is never below ceil(log2(65536 + unusable_rows)) and
\* equals it whenever no sub-table needs more than 65536 rows.
C6_DegreeFloor ==
    Sized =>
        /\ degree >= CeilLog2(65536 + blk.unusable_rows)
        /\ (\A r \in SubTableRows(blk) : r <= 65536)
            => degree = CeilLog2(65536 + blk.unusable_rows)

C6_Witness ==
    /\ Sized
    /\ grown = 0
    /\ blk.txs = <<>> /\ blk.copy_events = <<>> /\ blk.exp_events = <<>>
    /\ blk.unusable_rows = 64
    /\ degree = 17

\* ---------------------------------------------------------------- fingerprints
AllFingerprinted == fpA # NotComputed /\ fpB # NotComputed /\ fpAB # NotComputed

Assigned == assignments # NotComputed
Representable(c) == c.timestamp < FieldModulus /\ c.number < FieldModulus
ScalarTags == <<"Coinbase", "Timestamp", "Number", "Difficulty", "GasLimit",
                "BaseFee", "ChainId", "WithdrawalRoot">>

\* 8 + H rows: the eight scalar rows in order with second column 0, then one
\* BlockHash row per history hash carrying number - H + i
RowsAsClaimed(c, rows) ==
    LET H == Len(c.history_hashes)
    IN  /\ rows # Panicked
        /\ Len(rows) = 8 + H
        /\ \A i \in 1..8 : rows[i][1] = ScalarTags[i] /\ rows[i][2] = <<0>>
        /\ \A i \in 0..(H - 1) :
            /\ rows[8 + i + 1][1] = "BlockHash"
            /\ rows[8 + i + 1][2] = <<c.number - H + i>>
            /\ rows[8 + i + 1][3] = <<"lo", c.history_hashes[i + 1]>>

\* C9 as stated: the rows are returned for every (field-representable)
\* context, including those where number < H.
C9_Original ==
    (Assigned /\ Representable(context)) => RowsAsClaimed(context, assignments)

\* C9 amended: for every context whose number and timestamp are
\* representable in the field and whose number is >= H, the 8 + H rows are
\* returned as described; when H > 0 and number < H the call panics and
\* returns no rows.
C9_TableAssignments ==
    (Assigned /\ Representable(context)) =>
        IF context.number >= Len(context.history_hashes)
        THEN RowsAsClaimed(context, assignments)
        ELSE assignments = Panicked

C9_Witness ==
    /\ Assigned
    /\ Len(context.history_hashes) = 2
    /\ context.number = 3
    /\ assignments # Panicked
    /\ Len(assignments) = 10
    /\ assignments[9][2] = <<1>> /\ assignments[10][2] = <<2>>

====
